---- MODULE Spec2Model ----
(***************************************************************************)
(* Model of the Live Session Orchestrator of the cooking assistant         *)
(* (ChefApp, src/unnamed/part_009) with its ConnectionButton               *)
(* (src/unnamed/part_004) and timer controls (TimerCard.tsx).              *)
(*                                                                         *)
(* React state (useState) is modelled by a variable holding the latest     *)
(* value; what the handlers of the last committed render captured in their *)
(* closures is held separately (rConnected, rConnecting) and what the      *)
(* effects mirrored into refs is held in the ref variables (timersRef).    *)
(* Render is the commit that brings both up to date.                       *)
(*                                                                         *)
(* Every invocation of connectToGemini that passes its guards is an        *)
(* attempt k: it owns the pair of audio contexts, the media stream and the *)
(* streaming channel it creates; pc[k] is its position at an await.        *)
(***************************************************************************)
EXTENDS Integers, Sequences, FiniteSets, TLC

\* ------------------------------------------------------------------ bounds
MaxConnects == 2      \* invocations of connectToGemini that pass the guards
MaxClock    == 3      \* the output clock is followed up to this time
MaxChunks   == 2      \* inbound audio chunks followed
MaxTimers   == 2      \* timers ever created
MaxBatch    == 2      \* function calls in one tool-call notification
MaxDuration == 2      \* largest durationSeconds passed to createTimer
MaxTicking  == 1      \* timers created where the timer engine is followed
MaxRecipes  == 2      \* recipes of the library; recipe r has r instructions
MaxLogs     == 22     \* appends to the vision log followed since it was empty
MaxQueued   == 2      \* sends followed while they wait on a session promise
MaxPending  == 1      \* analyze-vision requests awaited at a time
MaxTail     == 3      \* characters of a reply after its padding

Attempts == 1..MaxConnects

Max(a, b) == IF a >= b THEN a ELSE b

\* No tool response was sent by the handling of the last notification.
NoneSent == [k |-> 0, responses |-> <<>>]

\* No chunk scheduled since the last connect or interruption.
\* A label is a sequence of characters; the alphabet followed has one letter
\* in both cases and one more letter.
LowerChar(c) == IF c = "A" THEN "a" ELSE c
toLowerCase(l) == [i \in DOMAIN l |-> LowerChar(l[i])]

\* a.includes(b)
includes(a, b) ==
  \E i \in 0..(Len(a) - Len(b)) : SubSeq(a, i + 1, i + Len(b)) = b

\* The labels a timer suggestion of the still-image analysis carries, and the
\* keys of recentTimerLabelsRef they give.
Labels == {<<"a">>, <<"A">>, <<"a", "b">>}
Keys == {toLowerCase(l) : l \in Labels}

\* setTimeout(() => recentTimerLabelsRef.current.delete(labelKey), 30000),
\* in seconds.
Window == 30

\* No suggestion with a positive duration was handled yet. Of the last one
\* handled: its key, how long ago it was (up to Window), whether a timer was
\* created for it, and what it found: no timer of the list overlapping its
\* label (clean), none in timersRef (known), and its key not in
\* recentTimerLabelsRef (fresh). And of the pair it makes with the one
\* handled before it: whether that one had the same key, was handled less
\* than Window ago and found the list clean (second), whether it also found
\* timersRef without an overlapping timer and its key not recently created
\* (firm), and how many timers the two created (made).
NotSeen ==
  [seen |-> FALSE, key |-> <<>>, age |-> 0, created |-> FALSE,
   clean |-> FALSE, known |-> FALSE, fresh |-> FALSE,
   second |-> FALSE, firm |-> FALSE, made |-> 0]

NoSched == [has |-> FALSE, start |-> 0, dur |-> 0, now |-> 0, prev |-> -1]

VARIABLES
  \* --- props and React state of ChefApp
  apiKey,             \* the apiKey prop is set
  isConnected, isConnecting, isCameraActive,
  connectionStatus,   \* diagnosticInfo.connectionStatus
  isSpeaking, isListening, isProcessing,
  error,              \* "null" or a tag of the message set by setError
  timers,             \* Timer[] state
  nTimers,            \* timers created so far (their ids are fresh)
  \* --- what the last committed render gave the handlers and the refs
  rConnected, rConnecting,
  rCameraActive,      \* the isCameraActive the vision effect last ran with
  timersRef,
  \* --- connect attempts and what they own
  nAttempts, pc, ctx, ctxTime, stream, chan,
  \* --- refs
  audioContextRef,    \* also stands for inputContextRef: set and closed together
  mediaStreamRef, sessionPromiseRef,
  videoIntervalRef, videoIntervals,
  visionIntervalRef,  \* the analysis interval is running
  videoSrc,           \* the mounted <video> element has the stream as srcObject
  nextStartTimeRef, sourcesRef,
  \* --- playback
  units,              \* buffer sources started whose onended has not fired yet
  decoding,           \* chunks whose decodeAudioData is awaited
  nChunks,
  \* --- tool responses on the wire
  lastSent,
  \* --- realtime input: continuations waiting on a session promise, and
  \* what the last step that could send has written to the channels
  outbox, wire,
  \* --- still-image analysis
  analysing,          \* analyze-vision requests awaited
  recent,             \* recentTimerLabelsRef: seconds until a key is deleted
  vis,                \* observation: the last suggestion handled
  idle,               \* observation: disconnect() returned, no connect() since
  \* --- what the tools answer from
  logs,               \* VisionLog[] state
  activeRecipe,       \* the active recipe of useRecipes (0: none)
  currentStep,        \* currentStep state, 0-based
  activeRecipeRef, currentStepRef,
  \* --- observation only (never read by an action's guard or effect)
  ev,                 \* what the last step was
  sched,              \* the last chunk scheduled and the one before it
  \* --- the analyze-vision edge function
  request,            \* one invocation: the request and the environment
  reply,              \* what the AI gateway answers to it
  resp                \* the Response the function returned

chefVars  == <<apiKey, isConnected, isConnecting, connectionStatus,
               isCameraActive, error,
               rConnected, rConnecting, nAttempts, pc, ctx, stream, chan,
               audioContextRef, mediaStreamRef, sessionPromiseRef,
               videoIntervalRef, videoIntervals, rCameraActive,
               visionIntervalRef, videoSrc>>
\* The edge function's variables; no handler of ChefApp writes them.
edgeVars  == <<request, reply, resp>>
sessVars  == <<chefVars, edgeVars>>
audioVars == <<isSpeaking, isListening, isProcessing, ctxTime,
               nextStartTimeRef, sourcesRef, units, decoding, nChunks, sched>>
timerVars == <<timers, timersRef, nTimers>>
recipeVars == <<activeRecipe, currentStep, activeRecipeRef, currentStepRef>>
relayVars == <<outbox, wire>>
visionVars == <<analysing, recent, vis>>
toolVars  == <<lastSent, logs, recipeVars, relayVars, visionVars, idle>>
vars      == <<sessVars, audioVars, timerVars, toolVars, ev>>

\* ------------------------------------------------------------- stopSession
\* The values stopSession(keepCamera) leaves behind.
SS_ctx ==
  [k \in Attempts |-> IF k = audioContextRef THEN "closed" ELSE ctx[k]]

\* source.stop() on every unit of sourcesRef.
StopUnits ==
  {IF u.id \in sourcesRef THEN [u EXCEPT !.stopped = TRUE] ELSE u : u \in units}

\* The units after stopSession: those of the context it closes are released
\* with it and fire no event any more; the others are stopped.
SS_units == {u \in StopUnits : u.ctx # audioContextRef}

SS_stream(keepCamera) ==
  IF ~keepCamera /\ mediaStreamRef # 0
    THEN [stream EXCEPT ![mediaStreamRef] = "stopped"]
    ELSE stream

SS_mediaStreamRef(keepCamera) == IF keepCamera THEN mediaStreamRef ELSE 0

SS_isCameraActive(keepCamera) ==
  IF ~keepCamera /\ mediaStreamRef # 0 THEN FALSE ELSE isCameraActive

\* if (videoRef.current) videoRef.current.srcObject = null
SS_videoSrc(keepCamera) ==
  IF ~keepCamera /\ mediaStreamRef # 0 THEN FALSE ELSE videoSrc

stopSession(keepCamera) ==
  /\ ctx' = SS_ctx
  /\ audioContextRef' = 0
  /\ units' = SS_units
  /\ sourcesRef' = {}
  /\ videoIntervals' = videoIntervals \ {videoIntervalRef}
  /\ videoIntervalRef' = 0
  /\ visionIntervalRef' = FALSE
  /\ stream' = SS_stream(keepCamera)
  /\ mediaStreamRef' = SS_mediaStreamRef(keepCamera)
  /\ isCameraActive' = SS_isCameraActive(keepCamera)
  /\ videoSrc' = SS_videoSrc(keepCamera)
  /\ sessionPromiseRef' = 0
  /\ isConnected' = FALSE
  /\ isConnecting' = FALSE
  /\ connectionStatus' = "disconnected"
  /\ isSpeaking' = FALSE
  /\ isListening' = FALSE
  /\ isProcessing' = FALSE

\* What stopSession leaves alone.
stopSessionFrame ==
  UNCHANGED <<apiKey, edgeVars, rConnected, rConnecting, rCameraActive, nAttempts, pc,
              chan, ctxTime, nextStartTimeRef, decoding, nChunks, sched,
              timerVars, toolVars>>

\* --------------------------------------------- the analyze-vision function
\* content.substring(0, 100)
DescLimit == 100

\* The characters a reply is made of: braces, blank, "d" for a well-formed
\* member list ("description": ..., "timerSuggestion": null) and "x" for any
\* other text.
Chars == {"{", "}", "d", " "}
Tails == UNION {[1..n -> Chars] : n \in 0..MaxTail}
Pad(n) == [i \in 1..n |-> "x"]
Contents == {Pad(n) \o t : n \in {0, DescLimit - 2, DescLimit}, t \in Tails}

Requests ==
  [method : {"OPTIONS", "POST"}, imageBase64 : BOOLEAN,
   LOVABLE_API_KEY : BOOLEAN]
\* status is response.status, json is whether response.json() resolves.
Replies ==
  [status : {200, 402, 429, 503}, json : BOOLEAN, content : Contents]
NoReply == [status |-> 0, json |-> FALSE, content |-> <<>>]
NoRequest ==
  [method |-> "-", imageBase64 |-> FALSE, LOVABLE_API_KEY |-> FALSE]
NoResponse == [status |-> 0]

\* String.prototype.trim
RECURSIVE trimStart(_)
trimStart(s) ==
  IF s # <<>> /\ Head(s) = " " THEN trimStart(Tail(s)) ELSE s
RECURSIVE trimEnd(_)
trimEnd(s) ==
  IF s # <<>> /\ s[Len(s)] = " " THEN trimEnd(SubSeq(s, 1, Len(s) - 1)) ELSE s
trim(s) == trimEnd(trimStart(s))

\* content.match(/\{[\s\S]*\}/): from the first "{" to the last "}" after
\* it; <<>> stands for null.
jsonMatch(content) ==
  LET opens  == {i \in DOMAIN content : content[i] = "{"}
      closes == {j \in DOMAIN content : content[j] = "}"}
      first  == CHOOSE i \in opens : \A o \in opens : i <= o
      last   == CHOOSE j \in closes : \A c \in closes : c <= j
  IN  IF \E i \in opens, j \in closes : i < j
        THEN SubSeq(content, first, last)
        ELSE <<>>

\* JSON.parse of a matched text: an object with no member, or with the
\* members "d" stands for; anything else throws.
Members(m) == trim(SubSeq(m, 2, Len(m) - 1))
parseThrows(m) == Members(m) \notin {<<>>, <<"d">>}
JSONparse(m) ==
  IF Members(m) = <<"d">>
    THEN [status |-> 200, description |-> <<"d">>, timerSuggestion |-> "null"]
    ELSE [status |-> 200, description |-> <<"undefined">>,
          timerSuggestion |-> "undefined"]

\* 'Unable to analyze scene'
Unable ==
  <<"U", "n", "a", "b", "l", "e", " ", "t", "o", " ", "a", "n", "a", "l", "y",
    "z", "e", " ", "s", "c", "e", "n", "e">>

\* A substring that keeps the whole text.
substring_Whole(content) ==
  SubSeq(content, 1, Len(content))

substring(content) ==
  SubSeq(content, 1,
         IF Len(content) < DescLimit THEN Len(content) ELSE DescLimit)

\* The try block from "Parse JSON response" on.
Result(content) ==
  LET m == jsonMatch(content)
  IN  IF m = <<>>
        THEN [status |-> 200, description |-> Unable,
              timerSuggestion |-> "null"]
      ELSE IF parseThrows(m)
        THEN [status |-> 200, description |-> substring(content),
              timerSuggestion |-> "null"]
      ELSE JSONparse(m)

Failure(status, message) == [status |-> status, error |-> message]

\* The handler of serve().
Respond(req, rep) ==
  IF req.method = "OPTIONS" THEN [status |-> 200, body |-> "null"]
  ELSE IF ~req.imageBase64 THEN Failure(400, "No image provided")
  ELSE IF ~req.LOVABLE_API_KEY
    THEN Failure(500, "LOVABLE_API_KEY is not configured")
  ELSE IF rep.status = 429
    THEN Failure(429, "Rate limit exceeded, please try again later")
  ELSE IF rep.status = 402 THEN Failure(402, "Payment required")
  ELSE IF rep.status # 200 THEN Failure(500, "Vision analysis failed")
  ELSE IF ~rep.json THEN Failure(500, "error.message")
  ELSE Result(trim(rep.content))

Serve ==
  /\ resp = NoResponse
  /\ request # NoRequest
  /\ resp' = Respond(request, reply)
  /\ UNCHANGED <<request, reply, chefVars, audioVars, timerVars, toolVars, ev>>

NextServe == Serve

\* ------------------------------------------------------------------- Init
InitChef ==
  /\ apiKey \in BOOLEAN
  /\ isConnected = FALSE /\ isConnecting = FALSE /\ isCameraActive = FALSE
  /\ connectionStatus = "disconnected"
  /\ isSpeaking = FALSE /\ isListening = FALSE /\ isProcessing = FALSE
  /\ error = "null"
  /\ timers = <<>> /\ timersRef = <<>> /\ nTimers = 0
  /\ rConnected = FALSE /\ rConnecting = FALSE /\ rCameraActive = FALSE
  /\ visionIntervalRef = FALSE /\ videoSrc = FALSE
  /\ nAttempts = 0
  /\ pc = [k \in Attempts |-> "none"]
  /\ ctx = [k \in Attempts |-> "none"]
  /\ ctxTime = [k \in Attempts |-> 0]
  /\ stream = [k \in Attempts |-> "none"]
  /\ chan = [k \in Attempts |-> "none"]
  /\ audioContextRef = 0 /\ mediaStreamRef = 0 /\ sessionPromiseRef = 0
  /\ videoIntervalRef = 0 /\ videoIntervals = {}
  /\ nextStartTimeRef = 0 /\ sourcesRef = {}
  /\ units = {} /\ decoding = {} /\ nChunks = 0
  /\ lastSent = NoneSent
  /\ outbox = <<>> /\ wire = <<>>
  /\ analysing = 0
  /\ recent = [key \in Keys |-> 0]
  /\ vis = NotSeen
  /\ idle = FALSE
  /\ logs = <<>>
  /\ activeRecipe = 0 /\ currentStep = 0
  /\ activeRecipeRef = 0 /\ currentStepRef = 0
  /\ ev = "-"
  /\ sched = NoSched

Init == InitChef /\ request = NoRequest /\ reply = NoReply /\ resp = NoResponse

\* One invocation of the edge function, for every request and gateway reply.
InitServe ==
  InitChef /\ request \in Requests /\ reply \in Replies /\ resp = NoResponse

\* ----------------------------------------------------------------- Render
\* The Timer fields of the model's timer records (the rest observes history).
TimerOf(t) ==
  [id |-> t.id, label |-> t.label, orig |-> t.orig, rem |-> t.rem,
   status |-> t.status]
TimersOf(ts) == [i \in DOMAIN ts |-> TimerOf(ts[i])]

\* The vision effect (deps: isCameraActive) when isCameraActive changed: its
\* cleanup clears the analysis interval, its body starts one iff the camera
\* is active.
VisionEffect ==
  IF rCameraActive # isCameraActive THEN isCameraActive ELSE visionIntervalRef

\* The effect's own call of analyzeVision ("run immediately once") when it
\* starts the interval: the call gets past its guards if this commit has
\* mounted the video element and the video has a picture.
EffectAnalyses ==
  rCameraActive # isCameraActive /\ isCameraActive /\ isConnected /\ videoSrc

\* React commits: the handlers passed to the children now close over the
\* current isConnecting / isConnected, the sync effects copy timers to
\* timersRef and currentStep to currentStepRef, and the vision effect runs.
Render ==
  /\ \/ rConnected # isConnected
     \/ rConnecting # isConnecting
     \/ rCameraActive # isCameraActive
     \/ timersRef # TimersOf(timers)
     \/ currentStepRef # currentStep
  /\ rConnected' = isConnected
  /\ rConnecting' = isConnecting
  /\ rCameraActive' = isCameraActive
  /\ visionIntervalRef' = VisionEffect
  /\ videoSrc' = (isConnected /\ videoSrc)  \* CameraFeed unmounts when not connected
  /\ timersRef' = TimersOf(timers)
  /\ currentStepRef' = currentStep
  /\ ev' = "-"
  /\ UNCHANGED <<apiKey, edgeVars, isConnected, isConnecting, connectionStatus, isCameraActive, error,
                 nAttempts, pc, ctx, stream, chan, audioContextRef,
                 mediaStreamRef, sessionPromiseRef, videoIntervalRef,
                 videoIntervals, audioVars, timers, nTimers, lastSent, logs,
                 activeRecipe, currentStep, activeRecipeRef, relayVars,
                 recent, vis, idle>>
  /\ analysing' = IF EffectAnalyses /\ analysing < MaxPending
                     THEN analysing + 1 ELSE analysing

\* The <video> element of CameraFeed is mounted only in a render with
\* isConnected, so videoRef.current is non-null exactly then.
videoMounted == rConnected

\* --------------------------------------------------------- connectToGemini
\* connectToGemini without an API key: sets the error and returns.
ConnectNoKey ==
  /\ ~rConnecting /\ ~rConnected          \* ConnectionButton.handleClick
  /\ ~apiKey
  /\ error' = "NoApiKey"
  /\ ev' = "-"
  /\ UNCHANGED <<apiKey, edgeVars, isConnected, isConnecting, connectionStatus, isCameraActive,
                 rConnected, rConnecting, nAttempts, pc, ctx, stream, chan,
                 audioContextRef, mediaStreamRef, sessionPromiseRef,
                 videoIntervalRef, videoIntervals, rCameraActive,
                 visionIntervalRef, videoSrc, audioVars, timerVars, lastSent,
                 logs, recipeVars, relayVars, visionVars>>
  /\ idle' = FALSE

\* The guard "Prevent multiple connection attempts": the isConnecting and
\* isConnected the closure captured.
ConnectGuard == ~(rConnecting \/ rConnected)

\* connectToGemini up to its first await (getUserMedia with video + audio).
ConnectStart ==
  /\ ~rConnecting /\ ~rConnected          \* ConnectionButton.handleClick
  /\ apiKey
  /\ ConnectGuard
  /\ nAttempts < MaxConnects
  /\ LET k == nAttempts + 1 IN
     /\ nAttempts' = k
     \* stopSession(true), then the new contexts
     /\ ctx' = [SS_ctx EXCEPT ![k] = "open"]
     /\ ctxTime' = [ctxTime EXCEPT ![k] = 0]
     /\ audioContextRef' = k
     /\ nextStartTimeRef' = 0             \* outputCtx.currentTime of a new context
     /\ pc' = [pc EXCEPT ![k] = "awaitAV"]
  /\ units' = SS_units
  /\ sourcesRef' = {}
  /\ videoIntervals' = videoIntervals \ {videoIntervalRef}
  /\ videoIntervalRef' = 0
  /\ visionIntervalRef' = FALSE
  /\ sessionPromiseRef' = 0
  /\ isConnected' = FALSE
  /\ isConnecting' = TRUE
  /\ connectionStatus' = "connecting"
  /\ isSpeaking' = FALSE /\ isListening' = FALSE /\ isProcessing' = FALSE
  /\ error' = "null"
  /\ sched' = NoSched
  /\ logs' = <<>>                         \* setLogs([])
  /\ ev' = "-"
  /\ UNCHANGED <<apiKey, edgeVars, isCameraActive, rConnected, rConnecting,
                 rCameraActive, videoSrc, stream, chan, mediaStreamRef,
                 decoding, nChunks, timerVars, lastSent, recipeVars,
                 relayVars, visionVars>>
  /\ idle' = FALSE

\* createMediaStreamSource / createScriptProcessor on a context that a
\* stopSession has closed in the meantime: the platform either throws
\* InvalidStateError or builds the nodes.
Throws(k) == IF ctx[k] = "closed" THEN BOOLEAN ELSE {FALSE}

attemptFrame ==
  UNCHANGED <<apiKey, edgeVars, rConnected, rConnecting, rCameraActive, nAttempts,
              ctxTime, nextStartTimeRef, decoding, nChunks, sched, timerVars,
              toolVars>>

\* The catch block of connectToGemini: setError, setIsConnecting(false),
\* stopSession(); msRef and strm are mediaStreamRef.current and the streams as
\* the try block left them.
ConnectCatch(k, msRef, strm) ==
  /\ pc' = [pc EXCEPT ![k] = "failed"]
  /\ error' = "Exception"
  /\ ctx' = SS_ctx
  /\ audioContextRef' = 0
  /\ units' = SS_units
  /\ sourcesRef' = {}
  /\ videoIntervals' = videoIntervals \ {videoIntervalRef}
  /\ videoIntervalRef' = 0
  /\ visionIntervalRef' = FALSE
  /\ stream' = IF msRef # 0 THEN [strm EXCEPT ![msRef] = "stopped"] ELSE strm
  /\ mediaStreamRef' = 0
  /\ isCameraActive' = FALSE
  /\ videoSrc' = IF msRef # 0 THEN FALSE ELSE videoSrc
  /\ sessionPromiseRef' = 0
  /\ isConnected' = FALSE /\ isConnecting' = FALSE
  /\ connectionStatus' = "disconnected"
  /\ isSpeaking' = FALSE /\ isListening' = FALSE /\ isProcessing' = FALSE
  /\ UNCHANGED chan
  /\ attemptFrame

\* A rest of the function that starts the relay interval without looking at
\* hasVideo.
ConnectFinish_AlwaysRelay(k, hasVideo, strm, cam) ==
  /\ pc' = [pc EXCEPT ![k] = "done"]
  /\ chan' = [chan EXCEPT ![k] = "opening"]
  /\ sessionPromiseRef' = k
  /\ videoIntervalRef' = k
  /\ videoIntervals' = videoIntervals \cup {k}
  /\ stream' = strm
  /\ mediaStreamRef' = k
  /\ isCameraActive' = cam
  /\ videoSrc' = IF videoMounted THEN hasVideo ELSE videoSrc
  /\ UNCHANGED <<isConnected, isConnecting, connectionStatus, error, ctx, audioContextRef,
                 visionIntervalRef, isSpeaking, isListening, isProcessing,
                 sourcesRef, units>>
  /\ attemptFrame

\* From "Audio Source and Analyzer" to the end of the try block: the channel
\* is opened by ai.live.connect, sessionPromiseRef is set and, with video, the
\* relay interval is started.
ConnectFinish(k, hasVideo, strm, cam) ==
  /\ pc' = [pc EXCEPT ![k] = "done"]
  /\ chan' = [chan EXCEPT ![k] = "opening"]
  /\ sessionPromiseRef' = k
  /\ videoIntervalRef' = IF hasVideo THEN k ELSE videoIntervalRef
  /\ videoIntervals' = IF hasVideo THEN videoIntervals \cup {k} ELSE videoIntervals
  /\ stream' = strm
  /\ mediaStreamRef' = k
  /\ isCameraActive' = cam
  /\ videoSrc' = IF videoMounted THEN hasVideo ELSE videoSrc
  /\ UNCHANGED <<isConnected, isConnecting, connectionStatus, error, ctx, audioContextRef,
                 visionIntervalRef, isSpeaking, isListening, isProcessing,
                 sourcesRef, units>>
  /\ attemptFrame

\* A stream was obtained: mediaStreamRef, the preview, and then either the
\* await of video.play() or the rest of the function.
ConnectWithStream(k, hasVideo, throws) ==
  LET strm == [stream EXCEPT ![k] = IF hasVideo THEN "av" ELSE "audio"]
      cam  == hasVideo /\ videoMounted
  IN  IF cam
        THEN /\ pc' = [pc EXCEPT ![k] = "awaitPlay"]
             /\ stream' = strm
             /\ mediaStreamRef' = k
             /\ isCameraActive' = TRUE
             /\ videoSrc' = TRUE
             /\ UNCHANGED <<isConnected, isConnecting, connectionStatus, error, ctx,
                            audioContextRef, isSpeaking, isListening,
                            isProcessing, sourcesRef, units, chan,
                            sessionPromiseRef, videoIntervalRef, videoIntervals,
                            visionIntervalRef>>
             /\ attemptFrame
        ELSE IF throws
               THEN ConnectCatch(k, k, strm)
               ELSE ConnectFinish(k, hasVideo, strm, FALSE)

\* getUserMedia({audio, video}) settles.
MediaAV(k, ok, throws) ==
  /\ pc[k] = "awaitAV"
  /\ IF ok
       THEN ConnectWithStream(k, TRUE, throws)
       ELSE /\ ~throws
            /\ pc' = [pc EXCEPT ![k] = "awaitAudio"]   \* toast, then audio only
            /\ UNCHANGED <<isConnected, isConnecting, connectionStatus, isCameraActive, error,
                           ctx, stream, chan, audioContextRef, mediaStreamRef,
                           sessionPromiseRef, videoIntervalRef, videoIntervals,
                           visionIntervalRef, videoSrc, isSpeaking,
                           isListening, isProcessing, sourcesRef, units>>
            /\ attemptFrame
  /\ ev' = "-"

\* getUserMedia({audio}) settles; its rejection reaches the catch block.
MediaAudio(k, ok, throws) ==
  /\ pc[k] = "awaitAudio"
  /\ IF ok
       THEN ConnectWithStream(k, FALSE, throws)
       ELSE /\ ~throws
            /\ ConnectCatch(k, mediaStreamRef, stream)
  /\ ev' = "-"

\* video.play() settles (a rejection is caught and logged).
PlayDone(k, throws) ==
  /\ pc[k] = "awaitPlay"
  /\ IF throws
       THEN ConnectCatch(k, mediaStreamRef, stream)
       ELSE /\ pc' = [pc EXCEPT ![k] = "done"]
            /\ chan' = [chan EXCEPT ![k] = "opening"]
            /\ sessionPromiseRef' = k
            /\ videoIntervalRef' = k
            /\ videoIntervals' = videoIntervals \cup {k}
            /\ UNCHANGED <<isConnected, isConnecting, connectionStatus, isCameraActive, error,
                           ctx, stream, audioContextRef, mediaStreamRef,
                           visionIntervalRef, videoSrc, isSpeaking,
                           isListening, isProcessing, sourcesRef, units>>
            /\ attemptFrame
  /\ ev' = "-"

\* ------------------------------------------------------- channel callbacks
\* The sends that wait on the session promise of channel k, and the others.
Waiting(k) == SelectSeq(outbox, LAMBDA m : m.k = k)
NotWaiting(k) == SelectSeq(outbox, LAMBDA m : m.k # k)

\* An onopen that leaves isConnecting as it is.
OnOpen_StillConnecting(k) ==
  /\ chan[k] = "opening"
  /\ chan' = [chan EXCEPT ![k] = "open"]
  /\ isConnected' = TRUE
  /\ connectionStatus' = "connected"
  /\ isListening' = TRUE
  /\ ev' = "-"
  /\ UNCHANGED <<apiKey, edgeVars, isConnecting, isCameraActive, error,
                 rConnected, rConnecting,
                 nAttempts, pc, ctx, stream, audioContextRef, mediaStreamRef,
                 sessionPromiseRef, videoIntervalRef, videoIntervals,
                 rCameraActive, visionIntervalRef, videoSrc,
                 isSpeaking, isProcessing, ctxTime, nextStartTimeRef,
                 sourcesRef, units, decoding, nChunks, sched, timerVars,
                 lastSent, logs, recipeVars, visionVars, idle>>
  /\ wire' = Waiting(k)
  /\ outbox' = NotWaiting(k)

\* callbacks.onopen of channel k. The session promise resolves with the open
\* channel, and the continuations that waited on it run, in order, before
\* any other event is dispatched.
OnOpen(k) ==
  /\ chan[k] = "opening"
  /\ chan' = [chan EXCEPT ![k] = "open"]
  /\ isConnected' = TRUE
  /\ isConnecting' = FALSE
  /\ connectionStatus' = "connected"
  /\ isListening' = TRUE
  /\ ev' = "-"
  /\ UNCHANGED <<apiKey, edgeVars, isCameraActive, error, rConnected, rConnecting,
                 nAttempts, pc, ctx, stream, audioContextRef, mediaStreamRef,
                 sessionPromiseRef, videoIntervalRef, videoIntervals,
                 rCameraActive, visionIntervalRef, videoSrc,
                 isSpeaking, isProcessing, ctxTime, nextStartTimeRef,
                 sourcesRef, units, decoding, nChunks, sched, timerVars,
                 lastSent, logs, recipeVars, visionVars, idle>>
  /\ wire' = Waiting(k)
  /\ outbox' = NotWaiting(k)

\* callbacks.onclose of channel k: setError, stopSession(true).
OnClose(k) ==
  /\ chan[k] \in {"opening", "open", "errored"}
  /\ chan' = [chan EXCEPT ![k] = "closed"]
  /\ error' = "SessionClosed"
  /\ stopSession(TRUE)
  /\ ev' = "-"
  /\ UNCHANGED <<apiKey, edgeVars, rConnected, rConnecting, rCameraActive, nAttempts,
                 pc, ctxTime, nextStartTimeRef, decoding, nChunks, sched,
                 timerVars, toolVars>>

\* callbacks.onerror of channel k: setError, stopSession(true). The close
\* event of the socket follows.
OnError(k) ==
  /\ chan[k] \in {"opening", "open"}
  /\ chan' = [chan EXCEPT ![k] = "errored"]
  /\ error' = "ConnectionError"
  /\ stopSession(TRUE)
  /\ ev' = "-"
  /\ UNCHANGED <<apiKey, edgeVars, rConnected, rConnecting, rCameraActive, nAttempts,
                 pc, ctxTime, nextStartTimeRef, decoding, nChunks, sched,
                 timerVars, toolVars>>

\* sessionPromise.catch: ai.live.connect rejected without any callback.
OnReject(k) ==
  /\ chan[k] = "opening"
  /\ chan' = [chan EXCEPT ![k] = "rejected"]
  /\ error' = "ConnectionFailed"
  /\ stopSession(TRUE)
  /\ ev' = "-"
  /\ wire' = <<>>
  /\ outbox' = NotWaiting(k)
  /\ UNCHANGED <<apiKey, edgeVars, rConnected, rConnecting, rCameraActive, nAttempts,
                 pc, ctxTime, nextStartTimeRef, decoding, nChunks, sched,
                 timerVars, lastSent, logs, recipeVars,
                 visionVars, idle>>

\* The user presses "End Session": ConnectionButton.handleClick calls
\* onDisconnect = stopSession(false).
Disconnect ==
  /\ ~rConnecting /\ rConnected
  /\ stopSession(FALSE)
  /\ ev' = "-"
  /\ idle' = TRUE
  /\ UNCHANGED <<error, chan>>
  /\ UNCHANGED <<apiKey, edgeVars, rConnected, rConnecting, rCameraActive, nAttempts, pc,
                 ctxTime, nextStartTimeRef, decoding, nChunks, sched,
                 timerVars, lastSent, logs, recipeVars, relayVars, visionVars>>

Live(k) == chan[k] \in {"opening", "open", "errored"}

\* The state of the connection state machine, and the streams whose tracks
\* are running.
ConnState ==
  IF isConnected THEN "connected"
  ELSE IF isConnecting THEN "connecting" ELSE "disconnected"
LiveStreams == {"av", "audio"}

\* ------------------------------------------------------------ realtime input
\* A message handed to sessionPromiseRef.current.then(session =>
\* session.sendRealtimeInput(...)): its kind ("audio", "video", "alert"), the
\* channel k of the promise, the timer id of an alert, and, as observation,
\* the connection state in which it was produced.
Msg(kind, k, id) == [kind |-> kind, k |-> k, id |-> id, at |-> ConnState]

\* Continuations waiting on a pending promise are followed up to MaxQueued.
Enqueue(box, msgs) ==
  LET all == box \o msgs
  IN  IF Len(all) <= MaxQueued THEN all ELSE SubSeq(all, 1, MaxQueued)

\* promise.then(send) for the messages msgs on the promise p: on a resolved
\* promise of an open channel the send runs right away, on a pending one it
\* waits for the promise; p = 0 is the guard on a null sessionPromiseRef.
SendVia(p, msgs) ==
  IF p = 0 THEN [outbox |-> outbox, wire |-> <<>>]
  ELSE IF chan[p] = "open" THEN [outbox |-> outbox, wire |-> msgs]
  ELSE IF chan[p] = "opening" THEN [outbox |-> Enqueue(outbox, msgs), wire |-> <<>>]
  ELSE [outbox |-> outbox, wire |-> <<>>]

\* scriptProcessor.onaudioprocess of attempt k: a microphone frame is
\* captured on the attempt's input context.
MicFrame(k) ==
  /\ pc[k] = "done"
  /\ ctx[k] = "open"
  /\ LET r == SendVia(sessionPromiseRef, <<Msg("audio", sessionPromiseRef, 0)>>)
     IN  outbox' = r.outbox /\ wire' = r.wire
  /\ ev' = "-"
  /\ UNCHANGED <<sessVars, audioVars, timerVars, lastSent, logs, recipeVars,
                 visionVars, idle>>

\* A run of the relay interval i that gets past its guards: the video
\* element and the canvas are mounted, a session promise is set and the
\* video has a picture.
VideoFrame(i) ==
  /\ i \in videoIntervals
  /\ videoMounted /\ sessionPromiseRef # 0 /\ videoSrc
  /\ LET r == SendVia(sessionPromiseRef, <<Msg("video", sessionPromiseRef, 0)>>)
     IN  outbox' = r.outbox /\ wire' = r.wire
  /\ ev' = "-"
  /\ UNCHANGED <<sessVars, audioVars, timerVars, lastSent, logs, recipeVars,
                 visionVars, idle>>

\* ------------------------------------------------------------ the output clock
\* Time passes on the output context that is open (a closed context's
\* currentTime stands still).
ClockAdvance(k) ==
  /\ ctx[k] = "open"
  /\ ctxTime[k] < MaxClock
  /\ ctxTime' = [ctxTime EXCEPT ![k] = @ + 1]
  /\ ev' = "-"
  /\ UNCHANGED <<sessVars, isSpeaking, isListening, isProcessing,
                 nextStartTimeRef, sourcesRef, units, decoding, nChunks, sched,
                 timerVars, toolVars>>

\* audioContextRef.current?.currentTime || 0
OutputNow == IF audioContextRef = 0 THEN 0 ELSE ctxTime[audioContextRef]

\* --------------------------------------------------- onmessage: serverContent
ChunkDurations == {1, 2}

\* The interruption block without its last line: the cursor stays.
InterruptCursor_Kept == nextStartTimeRef

\* nextStartTimeRef.current after the interruption block.
InterruptCursor == OutputNow

\* sourcesRef.current after the interruption block (stop each, then clear).
InterruptSources == {}

\* The handler of a serverContent message of channel k up to the await of
\* decodeAudioData: turnComplete, interrupted, and the start of the audio
\* block. dur = 0 stands for a message without inline audio.
\* Observation: the chunks whose decoding is awaited when an interruption is
\* handled are marked (cut); no action reads the mark.
Overtaken == {[c EXCEPT !.cut = TRUE] : c \in decoding}

OnServerContent(k, turnComplete, interrupted, dur) ==
  /\ chan[k] = "open"
  /\ turnComplete \/ interrupted \/ dur > 0
  /\ dur > 0 => nChunks < MaxChunks
  /\ isSpeaking' = (dur > 0)
  /\ isProcessing' = FALSE
  /\ isListening' = ~(dur > 0)
  /\ IF interrupted
       THEN /\ units' = StopUnits
            /\ sourcesRef' = InterruptSources
            /\ nextStartTimeRef' = InterruptCursor
            /\ sched' = NoSched
       ELSE UNCHANGED <<units, sourcesRef, nextStartTimeRef, sched>>
  /\ nChunks' = IF dur > 0 THEN nChunks + 1 ELSE nChunks
  /\ decoding' =
       (IF interrupted THEN Overtaken ELSE decoding) \cup
       (IF dur > 0
          THEN {[id |-> nChunks + 1, k |-> k, dur |-> dur, cut |-> FALSE]}
          ELSE {})
  /\ ev' = IF interrupted THEN "interrupted" ELSE "-"
  /\ UNCHANGED <<sessVars, ctxTime, timerVars, toolVars>>

\* The time at which bufferSource.start is called: the cursor, snapped
\* forward to now when it has fallen behind.
StartTime(cursor, now) == IF cursor < now THEN now ELSE cursor

\* The audio block without its advance of the cursor.
AdvanceCursor_NoAdvance(start, dur) == start

\* nextStartTimeRef.current += buffer.duration
AdvanceCursor(start, dur) == start + dur

\* decodeAudioData of chunk c resolves: the rest of the audio block. The
\* handler's outputCtx is the context of its own attempt.
AudioDecoded(c, throws) ==
  /\ c \in decoding
  /\ decoding' = decoding \ {c}
  /\ IF throws
       THEN UNCHANGED <<nextStartTimeRef, units, sourcesRef, sched>>
       ELSE LET now   == ctxTime[c.k]
                start == StartTime(nextStartTimeRef, now)
            IN  /\ nextStartTimeRef' = AdvanceCursor(start, c.dur)
                /\ units' = units \cup
                     {[id |-> c.id, ctx |-> c.k, start |-> start,
                       end |-> start + c.dur, stopped |-> FALSE]}
                /\ sourcesRef' = sourcesRef \cup {c.id}
                /\ sched' = [has |-> TRUE, start |-> start, dur |-> c.dur,
                             now |-> now,
                             prev |-> IF sched.has THEN sched.start + sched.dur
                                      ELSE -1]
  /\ ev' = "-"
  /\ UNCHANGED <<sessVars, isSpeaking, isListening, isProcessing, ctxTime,
                 nChunks, timerVars, toolVars>>

\* bufferSource.onended of unit u: it has played to its end, or was stopped.
OnEnded(u) ==
  /\ u \in units
  /\ ctx[u.ctx] = "open"
  /\ u.stopped \/ ctxTime[u.ctx] >= u.end
  /\ units' = units \ {u}
  /\ sourcesRef' = sourcesRef \ {u.id}
  /\ IF sourcesRef \ {u.id} = {}
       THEN isSpeaking' = FALSE /\ isListening' = TRUE
       ELSE UNCHANGED <<isSpeaking, isListening>>
  /\ ev' = "-"
  /\ UNCHANGED <<sessVars, isProcessing, ctxTime, nextStartTimeRef, decoding,
                 nChunks, sched, timerVars, toolVars>>

\* ------------------------------------------------------------------- timers
\* A Timer: id, label, durationOriginal (orig), durationRemaining (rem),
\* status. The
\* other fields observe its history and are read by no action: whether a
\* pause, resume or reset ever touched it, the ticks it has lived through
\* while untouched (counted up to orig + 1), and how often it entered
\* finished, in all (fins, counted up to 2) and since its creation or last
\* reset (finsRun).
NewTimer(id, label, durationSeconds) ==
  [id |-> id, label |-> label, orig |-> durationSeconds,
   rem |-> durationSeconds,
   status |-> "running",
   ticks |-> 0, touched |-> FALSE, fins |-> 0, finsRun |-> 0]


\* The tick finishing a timer one tick late (nextRemaining < 0).
TickTimer_Late(t) ==
  IF t.status # "running" THEN t
  ELSE LET nextRemaining == t.rem - 1 IN
       IF nextRemaining < 0 /\ t.rem > 0
         THEN [t EXCEPT !.rem = 0, !.status = "finished"]
         ELSE [t EXCEPT !.rem = Max(0, nextRemaining)]

\* The tick without its test that the timer had time left.
TickTimer_NoPositiveCheck(t) ==
  IF t.status # "running" THEN t
  ELSE LET nextRemaining == t.rem - 1 IN
       IF nextRemaining <= 0
         THEN [t EXCEPT !.rem = 0, !.status = "finished"]
         ELSE [t EXCEPT !.rem = Max(0, nextRemaining)]

\* The body of the tick's map over one timer.
TickTimer(t) ==
  IF t.status # "running" THEN t
  ELSE LET nextRemaining == t.rem - 1 IN
       IF nextRemaining <= 0 /\ t.rem > 0
         THEN [t EXCEPT !.rem = 0, !.status = "finished"]
         ELSE [t EXCEPT !.rem = Max(0, nextRemaining)]

\* The history fields after a step that took timer old to new.
Observed(old, new, isTick) ==
  LET entered == new.status = "finished" /\ old.status # "finished" IN
  [new EXCEPT
     !.ticks   = IF new.touched THEN 0
                 ELSE IF isTick /\ old.ticks <= old.orig THEN old.ticks + 1
                 ELSE old.ticks,
     !.fins    = IF entered /\ new.fins < 2 THEN new.fins + 1 ELSE new.fins,
     !.finsRun = IF entered THEN new.finsRun + 1 ELSE new.finsRun]

\* The timers a setTimers(prev => prev.map(...)) update leaves, with their
\* history: mapped is the result of the map over timers.
MapTimers(mapped, isTick) ==
  [i \in DOMAIN timers |-> Observed(timers[i], mapped[i], isTick)]

\* prevTimers.some(t => t.status === 'running')
hasRunning(prevTimers) ==
  \E i \in DOMAIN prevTimers : prevTimers[i].status = "running"

\* The [TIMER ALERT] messages of a tick, one for each timer that the tick
\* marks finished (the branch that also raises the toast), in list order.
TimerAlerts(prevTimers) ==
  LET fin == SelectSeq(prevTimers,
               LAMBDA t : t.status = "running" /\ TickTimer(t).status = "finished")
  IN  [i \in DOMAIN fin |-> Msg("alert", sessionPromiseRef, fin[i].id)]

\* The tick standing still while no session is connected.
Tick_WhileConnected ==
  /\ timers' = IF hasRunning(timers) /\ isConnected
                  THEN MapTimers([i \in DOMAIN timers |-> TickTimer(timers[i])], TRUE)
                  ELSE MapTimers(timers, TRUE)
  /\ LET r == SendVia(sessionPromiseRef, TimerAlerts(timers))
     IN  outbox' = r.outbox /\ wire' = r.wire
  /\ ev' = "-"
  /\ UNCHANGED <<sessVars, audioVars, timersRef, nTimers, lastSent, logs,
                 recipeVars, visionVars, idle>>

\* The once-per-second interval, set at mount: setTimers(prevTimers => ...),
\* which hands prevTimers back when no timer is running.
Tick ==
  /\ timers' = IF hasRunning(timers)
                  THEN MapTimers([i \in DOMAIN timers |-> TickTimer(timers[i])], TRUE)
                  ELSE MapTimers(timers, TRUE)
  /\ LET r == SendVia(sessionPromiseRef, TimerAlerts(timers))
     IN  outbox' = r.outbox /\ wire' = r.wire
  /\ ev' = "-"
  /\ UNCHANGED <<sessVars, audioVars, timersRef, nTimers, lastSent, logs,
                 recipeVars, visionVars, idle>>

\* What TimerCard shows for timer id in the committed render.
Shown(id, status) ==
  \E i \in DOMAIN timersRef : timersRef[i].id = id /\ timersRef[i].status = status

\* A toggle that also rewinds the timer.
ToggleOne_Rewinds(id, pause, t) ==
  IF t.id = id
    THEN [t EXCEPT !.status = IF pause THEN "paused" ELSE "running",
                   !.rem = t.orig, !.touched = TRUE]
    ELSE t

\* toggleTimer(id, pause)
ToggleOne(id, pause, t) ==
  IF t.id = id
    THEN [t EXCEPT !.status = IF pause THEN "paused" ELSE "running",
                   !.touched = TRUE]
    ELSE t

\* resetTimer(id)
ResetOne(id, t) ==
  IF t.id = id
    THEN [t EXCEPT !.status = "running", !.rem = t.orig, !.touched = TRUE,
                   !.finsRun = 0]
    ELSE t

\* The pause button, shown for a running timer.
Pause(id) ==
  /\ Shown(id, "running")
  /\ timers' = MapTimers([i \in DOMAIN timers |-> ToggleOne(id, TRUE, timers[i])], FALSE)
  /\ ev' = "-"
  /\ UNCHANGED <<sessVars, audioVars, timersRef, nTimers, toolVars>>

\* The play button, shown for a timer that is neither running nor finished.
Resume(id) ==
  /\ Shown(id, "paused")
  /\ timers' = MapTimers([i \in DOMAIN timers |-> ToggleOne(id, FALSE, timers[i])], FALSE)
  /\ ev' = "-"
  /\ UNCHANGED <<sessVars, audioVars, timersRef, nTimers, toolVars>>

\* The reset button, shown for a finished timer.
Reset(id) ==
  /\ Shown(id, "finished")
  /\ timers' = MapTimers([i \in DOMAIN timers |-> ResetOne(id, timers[i])], FALSE)
  /\ ev' = "-"
  /\ UNCHANGED <<sessVars, audioVars, timersRef, nTimers, toolVars>>

\* removeTimer(id), from the delete button of any shown timer.
Remove(id) ==
  /\ \E i \in DOMAIN timersRef : timersRef[i].id = id
  /\ timers' = SelectSeq(timers, LAMBDA t : t.id # id)
  /\ ev' = "-"
  /\ UNCHANGED <<sessVars, audioVars, timersRef, nTimers, toolVars>>

\* ------------------------------------------------------- onmessage: toolCall
\* A function call of a notification: the id and name the remote engine gave
\* it, whether it carries an argument bag at all (FunctionCall.args is
\* optional), and the durationSeconds in the bag of a createTimer.
DurArgs == -1..MaxDuration
CallLabel == <<"A">>      \* the label a createTimer call carries
Call(id, name, hasArgs, dur) ==
  [id |-> id, name |-> name, hasArgs |-> hasArgs, dur |-> dur,
   label |-> CallLabel]

\* The recipes of the library: recipe r has the instructions 0 .. r - 1.
Recipes == 1..MaxRecipes
StepsOf(r) == r

\* recipe.instructions?.[step] || ''
NoText == [recipe |-> 0, index |-> 0]
InstructionAt(r, step) ==
  IF step >= 0 /\ step < StepsOf(r) THEN [recipe |-> r, index |-> step] ELSE NoText

\* prev.slice(-19)
LogKeep == 19

\* A log entry is followed as its serial number: the first entry appended
\* after the log was last empty is 1, the next 2, and so on (the texts and
\* times of the entries are read by nothing).
Serial(prev) == IF prev = <<>> THEN 0 ELSE prev[Len(prev)]

\* The slice that keeps the oldest entries instead of the newest.
LastOf_Oldest(n, seq) == IF Len(seq) <= n THEN seq ELSE SubSeq(seq, 1, n)

\* prev.slice(-n)
LastOf(n, seq) == IF Len(seq) <= n THEN seq ELSE SubSeq(seq, Len(seq) - n + 1, Len(seq))

\* setLogs(prev => [...prev.slice(-19), entry])
LogAppend(prev) == Append(LastOf(LogKeep, prev), Serial(prev) + 1)

\* The response object of a call. result is the tag of its shape: "ok",
\* "set" (Timer ... set for ...s), "logged", "timers" ({timers}), "recipe"
\* (the recipe fields) or "NoActiveRecipe" (No active recipe selected); the
\* fields a shape does not have keep the values below.
Payload(tag) ==
  [result |-> tag, timers |-> <<>>, recipe |-> 0, currentStep |-> 0,
   currentStepText |-> NoText, totalSteps |-> 0]

\* The getActiveRecipe branch without its else: the recipe fields always.
RecipePayload_NoMarker(recipe, step) ==
  [Payload("recipe") EXCEPT !.recipe = recipe,
                            !.currentStep = step + 1,
                            !.currentStepText = InstructionAt(recipe, step),
                            !.totalSteps = StepsOf(recipe)]

\* The getActiveRecipe branch: recipe and step are the refs' values.
RecipePayload(recipe, step) ==
  IF recipe # 0
    THEN [Payload("recipe") EXCEPT !.recipe = recipe,
                                   !.currentStep = step + 1,
                                   !.currentStepText = InstructionAt(recipe, step),
                                   !.totalSteps = StepsOf(recipe)]
    ELSE Payload("NoActiveRecipe")

\* The handling of one call of the batch, on the result acc of the calls
\* before it: the timers and logs as the queued updates will leave them, the
\* responses pushed so far, and whether the handler has thrown. Destructuring
\* fc.args throws a TypeError when the call carries no argument bag.
DispatchOne(fc, acc) ==
  LET push(result) ==
        Append(acc.responses, [id |-> fc.id, name |-> fc.name, response |-> result])
  IN  IF fc.name = "createTimer" THEN
        IF ~fc.hasArgs THEN [acc EXCEPT !.threw = TRUE]
        ELSE [acc EXCEPT !.timers = Append(@, NewTimer(acc.n + 1, fc.label, fc.dur)),
                         !.n = @ + 1,
                         !.responses = push(Payload("set"))]
      ELSE IF fc.name = "getTimers" THEN
        [acc EXCEPT !.responses = push([Payload("timers") EXCEPT !.timers = timersRef])]
      ELSE IF fc.name = "logObservation" THEN
        IF ~fc.hasArgs THEN [acc EXCEPT !.threw = TRUE]
        ELSE [acc EXCEPT !.logs = LogAppend(@),
                         !.responses = push(Payload("logged"))]
      ELSE IF fc.name = "getActiveRecipe" THEN
        [acc EXCEPT !.responses = push(RecipePayload(activeRecipeRef, currentStepRef))]
      ELSE [acc EXCEPT !.responses = push(Payload("ok"))]

\* for (const fc of msg.toolCall.functionCalls) { ... }
RECURSIVE Dispatch(_, _)
Dispatch(calls, acc) ==
  IF calls = <<>> \/ acc.threw THEN acc
  ELSE Dispatch(Tail(calls), DispatchOne(Head(calls), acc))

\* The loop over the calls of a notification, from the current state.
DispatchAll(calls) ==
  Dispatch(calls, [timers |-> timers, n |-> nTimers, logs |-> logs,
                   responses |-> <<>>, threw |-> FALSE])

\* sessionPromise.then(session => session.sendToolResponse(...)): what goes on
\* the wire of channel k once the loop is through.
ToolResponse(k, r) ==
  IF r.threw THEN NoneSent ELSE [k |-> k, responses |-> r.responses]

\* The handler of a toolCall message of channel k.
OnToolCall(k, calls) ==
  /\ chan[k] = "open"
  /\ LET r == DispatchAll(calls)
     IN  /\ r.n <= MaxTimers
         /\ Serial(r.logs) <= MaxLogs
         /\ timers' = r.timers
         /\ nTimers' = r.n
         /\ logs' = r.logs
         /\ lastSent' = ToolResponse(k, r)
  /\ isProcessing' = TRUE
  /\ isListening' = FALSE
  /\ ev' = "-"
  /\ UNCHANGED <<sessVars, isSpeaking, ctxTime, nextStartTimeRef, sourcesRef,
                 units, decoding, nChunks, sched, timersRef, recipeVars,
                 relayVars, visionVars, idle>>

\* A serverContent message of channel k that carries nothing but
\* transcriptions with text: of the user's speech, of the model's, or both.
OnTranscription(k, input, output) ==
  /\ chan[k] = "open"
  /\ input \/ output
  /\ LET afterInput == IF input THEN LogAppend(logs) ELSE logs
     IN  logs' = IF output THEN LogAppend(afterInput) ELSE afterInput
  /\ Serial(logs') <= MaxLogs
  /\ ev' = "-"
  /\ UNCHANGED <<sessVars, audioVars, timerVars, lastSent, recipeVars,
                 relayVars, visionVars, idle>>

\* ------------------------------------------------------ still-image analysis
\* timersRef.current.some(t => t.label.toLowerCase().includes(labelKey) ||
\*                             labelKey.includes(t.label.toLowerCase()))
hasExistingTimer(ts, labelKey) ==
  \E i \in DOMAIN ts :
    \/ includes(toLowerCase(ts[i].label), labelKey)
    \/ includes(labelKey, toLowerCase(ts[i].label))

\* data.timerSuggestion of an analysis response: label, durationSeconds and
\* whether it carries a reason; NoSuggestion is a response without one.
Suggestions ==
  [some : {TRUE}, label : Labels, dur : 0..1, reason : BOOLEAN]
SilentSuggestions == {s \in Suggestions : ~s.reason}
NoSuggestion == [some |-> FALSE, label |-> <<"a">>, dur |-> 0, reason |-> FALSE]

\* A run of the analysis interval (every three seconds) that gets past the
\* guards of analyzeVision and sends its request: the interval exists only
\* for a callback that closed over isCameraActive = true, the video element
\* and the canvas are mounted and the video has a picture.
AnalyzeStart ==
  /\ visionIntervalRef
  /\ videoMounted /\ videoSrc
  /\ analysing < MaxPending
  /\ analysing' = analysing + 1
  /\ ev' = "-"
  /\ UNCHANGED <<sessVars, audioVars, timerVars, lastSent, logs, recipeVars,
                 relayVars, recent, vis, idle>>

\* The suggestion check without its look at the recently created labels.
ShouldCreate_NoRecent(s) ==
  /\ s.some
  /\ ~hasExistingTimer(timersRef, toLowerCase(s.label))
  /\ s.dur > 0

\* !hasExistingTimer && !recentlyCreated && suggestion.durationSeconds > 0
ShouldCreate(s) ==
  /\ s.some
  /\ ~hasExistingTimer(timersRef, toLowerCase(s.label))
  /\ recent[toLowerCase(s.label)] = 0
  /\ s.dur > 0

\* What handling the suggestion s leaves as the observation.
SeenNow(s, create) ==
  LET second == /\ vis.seen /\ vis.key = toLowerCase(s.label)
                /\ vis.age < Window /\ vis.clean
  IN  [seen |-> TRUE, key |-> toLowerCase(s.label), age |-> 0, created |-> create,
       clean |-> ~hasExistingTimer(timers, toLowerCase(s.label)),
       known |-> ~hasExistingTimer(timersRef, toLowerCase(s.label)),
       fresh |-> recent[toLowerCase(s.label)] = 0,
       second |-> second,
       firm |-> second /\ vis.known /\ vis.fresh,
       made |-> IF second
                  THEN (IF vis.created THEN 1 ELSE 0) + (IF create THEN 1 ELSE 0)
                  ELSE 0]

\* analyzeVision after its await: the response of an analyze-vision request
\* arrives, with or without a description (desc) and with the suggestion s.
\* A response with an error is one with neither.
VisionResponse(desc, s) ==
  /\ analysing > 0
  /\ analysing' = analysing - 1
  /\ LET create == ShouldCreate(s)
         described == IF desc THEN LogAppend(logs) ELSE logs
     IN  /\ create => nTimers < MaxTimers
         /\ timers' = IF create
                         THEN Append(timers, NewTimer(nTimers + 1, s.label, s.dur))
                         ELSE timers
         /\ nTimers' = IF create THEN nTimers + 1 ELSE nTimers
         /\ recent' = IF create
                         THEN [recent EXCEPT ![toLowerCase(s.label)] = Window]
                         ELSE recent
         /\ logs' = IF create /\ s.reason THEN LogAppend(described) ELSE described
         /\ vis' = IF s.some /\ s.dur > 0 THEN SeenNow(s, create) ELSE vis
  /\ Serial(logs') <= MaxLogs
  /\ ev' = "-"
  /\ UNCHANGED <<sessVars, audioVars, timersRef, lastSent, recipeVars,
                 relayVars, idle>>

\* d seconds pass: the timeouts that come due delete their keys, and the
\* suggestions handled grow older.
Elapse(d) ==
  /\ (\E key \in Keys : recent[key] > 0) \/ (vis.seen /\ vis.age < Window)
  /\ recent' = [key \in Keys |-> Max(0, recent[key] - d)]
  /\ vis' = IF vis.seen
              THEN [vis EXCEPT !.age = IF @ + d < Window THEN @ + d ELSE Window]
              ELSE vis
  /\ ev' = "-"
  /\ UNCHANGED <<sessVars, audioVars, timerVars, lastSent, logs, recipeVars,
                 relayVars, analysing, idle>>

\* RecipePanel: a recipe of the library is selected, or the active one is
\* cleared (r = 0). The click's update is rendered and the effect on
\* [activeRecipe] is run before the next event is dispatched: it sets
\* activeRecipeRef and queues setCurrentStep(0), which reaches currentStepRef
\* with the render after.
SelectRecipe(r) ==
  /\ r # activeRecipe
  /\ activeRecipe' = r
  /\ activeRecipeRef' = r
  /\ currentStep' = 0
  /\ ev' = "-"
  /\ UNCHANGED <<sessVars, audioVars, timerVars, lastSent, logs, currentStepRef,
                 relayVars, visionVars, idle>>

\* ActiveRecipeCard, shown while a recipe is active: a click on step i of the
\* recipe (or on next / previous step, which lead to such an i). The click's
\* update is rendered and currentStepRef synced before the next event.
GoToStep(i) ==
  /\ activeRecipe # 0
  /\ i \in 0..(StepsOf(activeRecipe) - 1)
  /\ i # currentStep
  /\ currentStep' = i
  /\ currentStepRef' = i
  /\ ev' = "-"
  /\ UNCHANGED <<sessVars, audioVars, timerVars, lastSent, logs, activeRecipe,
                 activeRecipeRef, relayVars, visionVars, idle>>

\* The notifications followed with the recipe: one getActiveRecipe call.
RecipeBatches == {<<Call(1, "getActiveRecipe", TRUE, 1)>>}

\* The notifications followed with the timer engine: one createTimer call
\* with any durationSeconds.
TimerBatches == {<<Call(1, "createTimer", TRUE, d)>> : d \in DurArgs}

\* The notifications followed with the dispatcher: up to MaxBatch calls of any
\* name, a createTimer or logObservation with or without its argument bag, the
\* ids of a batch numbered up or down.
CallShapes ==
  {<<"createTimer", TRUE>>, <<"createTimer", FALSE>>, <<"getTimers", TRUE>>,
   <<"logObservation", TRUE>>, <<"getActiveRecipe", TRUE>>, <<"other", TRUE>>}
IdSchemes == {"up", "down"}
BatchOf(shapes, scheme) ==
  [i \in DOMAIN shapes |->
     Call(IF scheme = "up" THEN i ELSE Len(shapes) + 1 - i,
          shapes[i][1], shapes[i][2], 1)]
ToolBatches ==
  {BatchOf(sh, sc) : sh \in UNION {[1..n -> CallShapes] : n \in 1..MaxBatch},
                     sc \in IdSchemes}

\* ------------------------------------------------------------ specifications
NextSession ==
  \/ Render
  \/ ConnectNoKey
  \/ ConnectStart
  \/ \E k \in Attempts, ok \in BOOLEAN : \E t \in Throws(k) : MediaAV(k, ok, t)
  \/ \E k \in Attempts, ok \in BOOLEAN : \E t \in Throws(k) : MediaAudio(k, ok, t)
  \/ \E k \in Attempts : \E t \in Throws(k) : PlayDone(k, t)
  \/ \E k \in Attempts : OnOpen(k)
  \/ \E k \in Attempts : OnClose(k)
  \/ \E k \in Attempts : OnError(k)
  \/ \E k \in Attempts : OnReject(k)
  \/ Disconnect

\* The session life cycle alone.
SpecSession == Init /\ [][NextSession]_vars

NextAudio ==
  \/ \E k \in Attempts : ClockAdvance(k)
  \/ \E k \in Attempts, tc \in BOOLEAN, intr \in BOOLEAN,
        dur \in {0} \cup ChunkDurations : OnServerContent(k, tc, intr, dur)
  \/ \E c \in decoding : \E t \in Throws(c.k) : AudioDecoded(c, t)
  \/ \E u \in units : OnEnded(u)

\* The render is up to date: React has flushed every pending update, as it
\* does before it dispatches the next click.
Committed == rConnected = isConnected /\ rConnecting = isConnecting

\* The life cycle with every click on an up-to-date render, and no step of a
\* connect running on after a teardown. (The video element is then never
\* mounted while a connect acquires its stream, so play() is never awaited.)
NextSessionSync ==
  \/ Render
  \/ Committed /\ ConnectStart
  \/ \E k \in Attempts, ok \in BOOLEAN : MediaAV(k, ok, FALSE)
  \/ \E k \in Attempts, ok \in BOOLEAN : MediaAudio(k, ok, FALSE)
  \/ \E k \in Attempts : OnOpen(k)
  \/ \E k \in Attempts : OnClose(k)
  \/ \E k \in Attempts : OnError(k)
  \/ \E k \in Attempts : OnReject(k)
  \/ Committed /\ Disconnect

SpecSessionSync == Init /\ [][NextSessionSync]_vars

\* What the platform guarantees to happen: React commits a pending update,
\* and a getUserMedia request is settled (granted or refused). Nothing makes
\* the remote answer: no callback of a channel is fair.
FairSession ==
  /\ WF_vars(Render)
  /\ \A k \in Attempts :
       /\ WF_vars(\E ok \in BOOLEAN : MediaAV(k, ok, FALSE))
       /\ WF_vars(\E ok \in BOOLEAN : MediaAudio(k, ok, FALSE))

\* The life cycle of SpecSessionSync under that scheduling.
SpecSessionLive == Init /\ [][NextSessionSync]_vars /\ FairSession

\* The life of the first session.
NextFirstSession ==
  \/ Render
  \/ nAttempts = 0 /\ Committed /\ ConnectStart
  \/ MediaAV(1, TRUE, FALSE)
  \/ OnOpen(1)
  \/ OnClose(1)
  \/ Committed /\ Disconnect

\* The playback scheduler over the life of one session: its connect, the
\* messages of its channel, its teardown by the user or by the remote, and the
\* messages and callbacks that arrive after the teardown.
SpecAudio == Init /\ [][NextFirstSession \/ NextAudio]_vars

\* A first session with camera and microphone granted, up to its open channel.
NextOpenSession ==
  \/ Render
  \/ nAttempts = 0 /\ Committed /\ ConnectStart
  \/ MediaAV(1, TRUE, FALSE)
  \/ OnOpen(1)

NextTimers ==
  \/ Tick
  \/ \E id \in 1..MaxTimers : Pause(id)
  \/ \E id \in 1..MaxTimers : Resume(id)
  \/ \E id \in 1..MaxTimers : Reset(id)
  \/ \E id \in 1..MaxTimers : Remove(id)
  \/ \E calls \in TimerBatches : nTimers < MaxTicking /\ OnToolCall(1, calls)

\* The timer engine, with the session that creates its timers.
SpecTimers == Init /\ [][NextOpenSession \/ NextTimers]_vars

\* The timer buttons on a list of up to MaxTimers timers, each created for
\* two seconds, and the tick that lets them finish.
NextTimerButtons ==
  \/ Tick
  \/ \E id \in 1..MaxTimers : Pause(id)
  \/ \E id \in 1..MaxTimers : Resume(id)
  \/ \E id \in 1..MaxTimers : Reset(id)
  \/ nTimers < MaxTimers
       /\ OnToolCall(1, <<Call(1, "createTimer", TRUE, 2)>>)

SpecTimerButtons == Init /\ [][NextOpenSession \/ NextTimerButtons]_vars

\* The microphone of a session.
NextMic ==
  \/ \E k \in Attempts : MicFrame(k)

SpecMic == Init /\ [][NextSessionSync \/ NextMic]_vars

\* A one-second timer across the life of sessions: the tick and the
\* createTimer tool of any open channel.
NextLifeTick ==
  \/ Tick
  \/ \E k \in Attempts :
        nTimers = 0 /\ OnToolCall(k, <<Call(1, "createTimer", TRUE, 1)>>)

SpecLifeTick == Init /\ [][NextSessionSync \/ NextLifeTick]_vars

\* A session whose camera comes on: the video element is mounted only while
\* connected, so the camera is taken over by a connect that finds a session
\* shown as connected, as the second of two clicks does.
NextCamera ==
  \/ Render
  \/ nAttempts < 2 /\ ConnectStart
  \/ \E k \in Attempts : MediaAV(k, TRUE, FALSE)
  \/ \E k \in Attempts : PlayDone(k, FALSE)
  \/ \E k \in Attempts : OnOpen(k)

\* The still-image analysis until two timers were made, the time that
\* passes, the timer a tool call makes and the timers the user deletes.
NextVision ==
  \/ AnalyzeStart
  \/ \E s \in SilentSuggestions \cup {NoSuggestion} :
        nTimers < 2 /\ VisionResponse(FALSE, s)
  \/ \E d \in {Window \div 2, Window} : Elapse(d)
  \/ \E id \in 1..MaxTimers : Remove(id)
  \/ \E k \in Attempts :
        nTimers = 0 /\ OnToolCall(k, <<Call(1, "createTimer", TRUE, 1)>>)

SpecVision == Init /\ [][NextCamera \/ NextVision]_vars

\* What is appended to the vision log: transcriptions, logObservation calls,
\* the descriptions of the still-image analysis and its notes on the timers
\* it creates.
NextLog ==
  \/ AnalyzeStart
  \/ \E desc \in BOOLEAN,
        s \in {NoSuggestion,
               [some |-> TRUE, label |-> <<"a">>, dur |-> 1, reason |-> TRUE]} :
        VisionResponse(desc, s)
  \/ \E k \in Attempts, input \in BOOLEAN, output \in BOOLEAN :
        OnTranscription(k, input, output)
  \/ \E k \in Attempts : OnToolCall(k, <<Call(1, "logObservation", TRUE, 0)>>)

SpecLog == Init /\ [][NextCamera \/ NextLog]_vars

\* Everything periodic a session with a camera runs, the audio chunks the
\* model answers with, and the user's disconnect.
NextPeriodic ==
  \/ Committed /\ Disconnect
  \/ \E k \in Attempts : MicFrame(k)
  \/ \E i \in Attempts : VideoFrame(i)
  \/ AnalyzeStart
  \/ VisionResponse(FALSE, NoSuggestion)
  \/ \E k \in Attempts : OnServerContent(k, FALSE, FALSE, 1)
  \/ \E c \in decoding : AudioDecoded(c, FALSE)

SpecPeriodic == Init /\ [][NextCamera \/ NextPeriodic]_vars

NextTools ==
  \/ NextOpenSession
  \/ \E calls \in ToolBatches : OnToolCall(1, calls)

NextRecipe ==
  \/ NextOpenSession
  \/ \E r \in 0..MaxRecipes : SelectRecipe(r)
  \/ \E i \in 0..(MaxRecipes - 1) : GoToStep(i)
  \/ \E calls \in RecipeBatches : OnToolCall(1, calls)

\* The recipe the user follows, and what getActiveRecipe answers.
SpecRecipe == Init /\ [][NextRecipe]_vars

\* The tool dispatcher on the open channel of a session.
SpecTools == Init /\ [][NextTools]_vars

\* ===================================================================== claims

\* C1: a connect invoked while an earlier connect is still connecting is a
\* no-op: it starts no attempt, so no second channel is opened and no second
\* media stream is acquired.
C1_SecondConnectNoOp == [][nAttempts' > nAttempts => ~isConnecting]_vars

\* C2: at most one streaming channel is live at a time.
C2_OneLiveChannel == Cardinality({k \in Attempts : Live(k)}) <= 1

\* C3 as stated: a chunk scheduled after another one, with no interruption
\* between them, starts exactly where the earlier one ends.
C3_Gapless == (sched.has /\ sched.prev >= 0) => sched.start = sched.prev

\* C3 as amended: the later chunk starts where the earlier one ends, or at the
\* output clock's current time when that is later (the cursor had fallen
\* behind the clock).
C3_GaplessOrSnapped ==
  (sched.has /\ sched.prev >= 0) => sched.start = Max(sched.prev, sched.now)

\* Two chunks back to back: the later one was scheduled ahead of the clock,
\* exactly at the end of the earlier one.
C3_Witness ==
  sched.has /\ sched.prev >= 0 /\ sched.start = sched.prev /\ sched.start > sched.now

\* C4: after a message flagged interrupted has been handled, the playback set
\* is empty and the cursor is not behind the output clock.
C4_InterruptFlushes ==
  ev = "interrupted" => sourcesRef = {} /\ nextStartTimeRef >= OutputNow

\* An interruption that stopped a scheduled unit, on a running output clock.
C4_Witness ==
  /\ ev = "interrupted"
  /\ \E u \in units : u.stopped
  /\ audioContextRef # 0 /\ OutputNow > 0

\* C5: the speaking indicator is true exactly when the playback set is
\* non-empty (stated outside the await of a decode, during which isSpeaking is
\* already set and the unit is not yet in the set).
C5_SpeakingIffPlaying == decoding = {} => (isSpeaking <=> sourcesRef # {})

\* A step takes the timer at position i to the timer at position j.
SameTimer(i, j) ==
  /\ i \in DOMAIN timers /\ j \in DOMAIN timers'
  /\ timers[i].id = timers'[j].id

\* C6: in every step other than a reset of the timer, a running timer's
\* remaining duration does not increase and a paused or finished timer's
\* remaining duration does not change.
C6_RemainingMonotone ==
  [][\A i \in 1..MaxTimers, j \in 1..MaxTimers :
       (SameTimer(i, j) /\ ~Reset(timers[i].id)) =>
          IF timers[i].status = "running"
            THEN timers'[j].rem <= timers[i].rem
            ELSE timers'[j].rem = timers[i].rem]_vars

\* A timer enters finished in this step, at a tick that takes its remaining
\* duration from above 0 to 0 while it is running.
FinishesAtZeroTick(i, j) ==
  /\ Tick
  /\ timers[i].status = "running"
  /\ timers[i].rem > 0 /\ timers'[j].rem = 0

EntersFinished(i, j) ==
  SameTimer(i, j) /\ timers[i].status # "finished" /\ timers'[j].status = "finished"

\* C7 as stated: a timer enters finished at most once in its life, and only
\* at a tick at which its remaining duration reaches 0 while it is running.
C7_FinishedOnce ==
  [][\A i \in 1..MaxTimers, j \in 1..MaxTimers :
       EntersFinished(i, j) => FinishesAtZeroTick(i, j) /\ timers[i].fins = 0]_vars

\* C7 as amended: a timer enters finished at most once between its creation
\* or latest reset and its next reset or deletion, and only at a tick at which
\* its remaining duration reaches 0 while it is running.
C7_FinishedOncePerRun ==
  [][\A i \in 1..MaxTimers, j \in 1..MaxTimers :
       EntersFinished(i, j) => FinishesAtZeroTick(i, j) /\ timers[i].finsRun = 0]_vars

\* A timer that has finished, was reset, and has finished again.
C7_Witness ==
  \E i \in DOMAIN timers :
    /\ timers[i].status = "finished" /\ timers[i].rem = 0
    /\ timers[i].fins = 2 /\ timers[i].finsRun = 1

\* C8: every timer's remaining duration lies between 0 and its original
\* duration.
C8_RemainingInRange ==
  \A i \in DOMAIN timers : 0 <= timers[i].rem /\ timers[i].rem <= timers[i].orig

\* C9: a timer of duration d >= 1 that was never paused, resumed or reset is
\* running with d - k left after k < d ticks, and finished with 0 left after
\* d ticks and after every later tick.
C9_CountsDown ==
  \A i \in DOMAIN timers :
    (timers[i].orig >= 1 /\ ~timers[i].touched) =>
       IF timers[i].ticks < timers[i].orig
         THEN /\ timers[i].status = "running"
              /\ timers[i].rem = timers[i].orig - timers[i].ticks
         ELSE /\ timers[i].status = "finished"
              /\ timers[i].rem = 0

\* An untouched timer of duration 2 that has lived through a tick after the
\* one that finished it.
C9_Witness ==
  \E i \in DOMAIN timers :
    /\ timers[i].orig >= 2 /\ ~timers[i].touched
    /\ timers[i].ticks > timers[i].orig
    /\ timers[i].status = "finished"

\* C10: the handling of a notification with N calls sends one tool response
\* with N responses, the i-th with the id and the name of the i-th call.
C10_OneBatchedResponse ==
  [][\A calls \in ToolBatches :
       OnToolCall(1, calls) =>
          /\ lastSent'.k = 1
          /\ Len(lastSent'.responses) = Len(calls)
          /\ \A i \in DOMAIN calls :
               /\ lastSent'.responses[i].id = calls[i].id
               /\ lastSent'.responses[i].name = calls[i].name]_vars

\* The id addTimer gives the timer of the createTimer call at position i of
\* a batch whose calls all carry their arguments.
CreatedId(calls, i) ==
  nTimers + Cardinality({m \in 1..i : calls[m].name = "createTimer"})

\* C11: in the response to a batch with a createTimer call followed by a
\* getTimers call, the timers of the getTimers result include the timer that
\* createTimer call created.
C11_GetTimersSeesCreated ==
  [][\A calls \in ToolBatches :
       (OnToolCall(1, calls) /\ lastSent'.k = 1) =>
          \A i, j \in DOMAIN calls :
             (i < j /\ calls[i].name = "createTimer" /\ calls[j].name = "getTimers") =>
                \E n \in DOMAIN lastSent'.responses[j].response.timers :
                   lastSent'.responses[j].response.timers[n].id = CreatedId(calls, i)]_vars

\* The calls of a batch whose name is one of the four tools.
KnownCalls(calls) == SelectSeq(calls, LAMBDA fc : fc.name # "other")

\* C12: a call of an unknown tool is answered with {result: "ok"} under its
\* own id; the timers and the log are left as the other calls of the batch
\* leave them; and the other calls are answered as they are without it.
C12_UnknownToolAnswered ==
  [][\A calls \in ToolBatches :
       (OnToolCall(1, calls) /\ \E i \in DOMAIN calls : calls[i].name = "other") =>
          /\ timers' = DispatchAll(KnownCalls(calls)).timers
          /\ logs' = DispatchAll(KnownCalls(calls)).logs
          /\ lastSent'.k = 1
          /\ Len(lastSent'.responses) = Len(calls)
          /\ \A i \in DOMAIN calls :
               calls[i].name = "other" =>
                  lastSent'.responses[i] =
                     [id |-> calls[i].id, name |-> "other", response |-> Payload("ok")]
          /\ SelectSeq(lastSent'.responses, LAMBDA a : a.name # "other")
               = DispatchAll(KnownCalls(calls)).responses]_vars

C14_ActiveRecipeAnswer ==
  [][\A calls \in RecipeBatches :
       (OnToolCall(1, calls) /\ activeRecipe # 0) =>
          /\ lastSent'.k = 1
          /\ lastSent'.responses[1].response =
               [Payload("recipe") EXCEPT
                  !.recipe = activeRecipe,
                  !.currentStep = currentStep + 1,
                  !.currentStepText = [recipe |-> activeRecipe, index |-> currentStep],
                  !.totalSteps = StepsOf(activeRecipe)]
          /\ UNCHANGED recipeVars]_vars

\* C15: a remote close or error handled while connected leaves the state
\* disconnected with the media stream still held and isCameraActive
\* unchanged; a user disconnect while connected leaves the state
\* disconnected with every media track stopped, mediaStreamRef null and
\* isCameraActive false.
C15_CameraRetainedOrReleased ==
  [][/\ \A k \in Attempts :
          ((OnClose(k) \/ OnError(k)) /\ isConnected)
            => /\ ConnState' = "disconnected"
               /\ mediaStreamRef' = mediaStreamRef
               /\ stream' = stream
               /\ isCameraActive' = isCameraActive
     /\ (Disconnect /\ isConnected)
          => /\ ConnState' = "disconnected"
             /\ \A k \in Attempts : stream'[k] \notin LiveStreams
             /\ mediaStreamRef' = 0
             /\ ~isCameraActive']_vars

\* C16: once a remote close has left the media stream retained, a connect
\* acquires no new stream, and at no time is there a stream with running
\* tracks that mediaStreamRef does not reference.
C16_ReusesRetainedStream ==
  [][/\ \A k \in Attempts :
          (/\ mediaStreamRef # 0
           /\ stream[mediaStreamRef] \in LiveStreams
           /\ chan[mediaStreamRef] = "closed")
            => ~(stream[k] = "none" /\ stream'[k] \in LiveStreams)
     /\ \A k \in Attempts :
          stream'[k] \in LiveStreams => mediaStreamRef' = k]_vars

\* C17: an event that matches no edge of the connection state machine leaves
\* the connection state unchanged: onopen, onclose, onerror and the user's
\* disconnect while disconnected keep it disconnected, onopen while
\* connected keeps it connected.
C17_UnmatchedEventIgnored ==
  [][/\ \A k \in Attempts :
          ((OnOpen(k) \/ OnClose(k) \/ OnError(k)) /\ ConnState = "disconnected")
            => ConnState' = "disconnected"
     /\ (Disconnect /\ ConnState = "disconnected")
          => ConnState' = "disconnected"
     /\ \A k \in Attempts :
          (OnOpen(k) /\ ConnState = "connected") => ConnState' = "connected"]_vars

\* C18: no connect attempt stays connecting forever: from every state with
\* isConnecting true a state with isConnecting false (connected or
\* disconnected) is eventually reached, whatever the device acquisition and
\* the channel open do, an open that is never answered included.
C18_ConnectingEnds == isConnecting ~> ~isConnecting

\* A structural failure of attempt k: the microphone cannot be acquired, or
\* the channel open is rejected or reports an error before it has opened.
StructuralFailure(k) ==
  \/ MediaAudio(k, FALSE, FALSE)
  \/ OnReject(k)
  \/ OnError(k) /\ chan[k] = "opening"

\* C19: a structural failure of a connect attempt ends in the state
\* disconnected with isConnecting false, sessionPromiseRef null, the relay
\* and the analysis interval cleared (none running), and an error message set.
C19_StructuralFailureResets ==
  [][\A k \in Attempts :
        StructuralFailure(k)
          => /\ ConnState' = "disconnected"
             /\ ~isConnecting'
             /\ sessionPromiseRef' = 0
             /\ videoIntervalRef' = 0
             /\ videoIntervals' = {}
             /\ ~visionIntervalRef'
             /\ error' # "null"]_vars

\* C20: when getUserMedia for camera and microphone has failed and the one
\* for the microphone alone succeeds, connectToGemini does not abort: it
\* opens the channel with isCameraActive false and starts no relay
\* interval; the attempt can then still become connected (C20_Witness).
C20_AudioOnlyGoesOn ==
  [][\A k \in Attempts :
        MediaAudio(k, TRUE, FALSE)
          => /\ pc'[k] = "done"
             /\ chan'[k] = "opening"
             /\ sessionPromiseRef' = k
             /\ stream'[k] = "audio"
             /\ ~isCameraActive'
             /\ videoIntervalRef' = videoIntervalRef
             /\ videoIntervals' = videoIntervals
             /\ k \notin videoIntervals'
             /\ isConnecting' = isConnecting
             /\ error' = error]_vars

\* An audio-only attempt is connected, with no camera and no relay interval.
C20_Witness ==
  \E k \in Attempts :
    /\ isConnected /\ chan[k] = "open"
    /\ stream[k] = "audio" /\ mediaStreamRef = k
    /\ ~isCameraActive
    /\ videoIntervalRef = 0 /\ videoIntervals = {}

\* C25: inbound audio chunks are scheduled on the shared cursor in arrival
\* order (chunk ids count arrivals): of two scheduled units of a context
\* that no interruption or teardown has stopped, the one that arrived first
\* does not start later, even when its decoding completed later.
C25_ArrivalOrder ==
  \A u, v \in units :
    (u.ctx = v.ctx /\ ~u.stopped /\ ~v.stopped /\ u.id < v.id)
      => u.start <= v.start

\* C26: the onended handler of a unit that an interruption or a teardown has
\* stopped changes no state: the playback set and the speaking and listening
\* indicators stay as they are.
C26_StoppedUnitSilent ==
  [][\A u \in units :
        (u.stopped /\ OnEnded(u))
          => /\ sourcesRef' = sourcesRef
             /\ isSpeaking' = isSpeaking
             /\ isListening' = isListening]_vars

\* What a timer action on id may change of timer old to get new: nothing of
\* another timer, and nothing but the status (and, on reset, the remaining
\* time) of its target.
OnlyStatus(old, new, status) ==
  TimerOf(new) = [TimerOf(old) EXCEPT !.status = status]

OthersKept(id) ==
  /\ Len(timers') = Len(timers)
  /\ \A i \in DOMAIN timers :
       timers[i].id # id => TimerOf(timers'[i]) = TimerOf(timers[i])
  /\ \A i \in DOMAIN timers : timers'[i].id = timers[i].id

\* C29: pause and resume of timer id change only the status of that timer
\* (to paused, to running) and leave its remaining, original and label;
\* reset sets its remaining to its original and its status to running; each
\* leaves every other timer and the order of the list unchanged.
C29_ActionsTouchTarget ==
  [][\A id \in 1..MaxTimers :
        /\ Pause(id) =>
             /\ OthersKept(id)
             /\ \A i \in DOMAIN timers :
                  timers[i].id = id => OnlyStatus(timers[i], timers'[i], "paused")
        /\ Resume(id) =>
             /\ OthersKept(id)
             /\ \A i \in DOMAIN timers :
                  timers[i].id = id => OnlyStatus(timers[i], timers'[i], "running")
        /\ Reset(id) =>
             /\ OthersKept(id)
             /\ \A i \in DOMAIN timers :
                  timers[i].id = id =>
                    TimerOf(timers'[i]) =
                      [TimerOf(timers[i]) EXCEPT !.status = "running",
                                                 !.rem = timers[i].orig]]_vars

\* A timer was paused part-way and another was reset after it had finished,
\* with a third state of the list in between: two timers, one touched and
\* paused with time left, the other running untouched.
C29_Witness ==
  /\ Len(timers) >= 2
  /\ \E i, j \in DOMAIN timers :
       /\ i < j
       /\ timers[i].touched /\ timers[i].status = "paused"
       /\ timers[i].rem > 0 /\ timers[i].rem < timers[i].orig
       /\ ~timers[j].touched /\ timers[j].status = "running"

\* C28: a microphone frame is forwarded only if it was captured in the state
\* connected; a frame captured while connecting or disconnected is neither
\* sent nor kept waiting for the channel to open.
C28_ConnectedFramesOnly ==
  /\ \A i \in DOMAIN wire :
       wire[i].kind = "audio" => wire[i].at = "connected"
  /\ \A i \in DOMAIN outbox :
       outbox[i].kind = "audio" => outbox[i].at = "connected"

\* The alerts for timer id among the messages msgs.
AlertsFor(id, msgs) ==
  Cardinality({j \in DOMAIN msgs : msgs[j].kind = "alert" /\ msgs[j].id = id})

\* The tick takes the running timer at position i to zero.
ReachesZero(i) ==
  timers[i].status = "running" /\ timers[i].rem > 0 /\ timers'[i].rem = 0

\* C30: a tick that takes a running timer to zero marks it finished and
\* raises its completion event once, and a tick over a finished timer raises
\* none; with a session connected exactly one timer alert for it goes out on
\* the channel in that tick, and with no session none is sent or kept.
C30_OneCompletionEvent ==
  [][Tick =>
       \A i \in DOMAIN timers :
         /\ ReachesZero(i) =>
               /\ timers'[i].status = "finished"
               /\ timers'[i].finsRun = timers[i].finsRun + 1
               /\ ConnState = "connected" =>
                     AlertsFor(timers[i].id, wire') = 1
               /\ ConnState = "disconnected" =>
                     /\ AlertsFor(timers[i].id, wire') = 0
                     /\ outbox' = outbox
         /\ timers[i].status = "finished" =>
               /\ timers'[i].finsRun = timers[i].finsRun
               /\ AlertsFor(timers[i].id, wire') = 0
               /\ outbox' = outbox]_vars

\* A step of connect(), of disconnect() or of a channel callback.
SessionStep ==
  \/ ConnectStart
  \/ \E k \in Attempts, ok \in BOOLEAN : MediaAV(k, ok, FALSE)
  \/ \E k \in Attempts, ok \in BOOLEAN : MediaAudio(k, ok, FALSE)
  \/ Disconnect
  \/ \E k \in Attempts : OnOpen(k) \/ OnClose(k) \/ OnError(k)

\* C24: connect(), disconnect() and the open, close and error callbacks of a
\* channel leave every timer of the list as it was, and the tick takes one
\* second off every running timer with time left, whatever the connection
\* state.
C24_TimersOutliveSessions ==
  [][/\ SessionStep =>
          /\ Len(timers') = Len(timers)
          /\ \A i \in DOMAIN timers : TimerOf(timers'[i]) = TimerOf(timers[i])
     /\ Tick =>
          \A i \in DOMAIN timers :
            (timers[i].status = "running" /\ timers[i].rem > 0) =>
              timers'[i].rem = timers[i].rem - 1]_vars

\* A second connect is under way, the list holds a timer, and a tick taken
\* in the state connecting has finished a timer.
C24_Witness ==
  /\ nAttempts = 2
  /\ ConnState = "connecting"
  /\ Len(timers) >= 1
  /\ \E i \in DOMAIN outbox :
       outbox[i].kind = "alert" /\ outbox[i].at = "connecting"

C27_NoOverlappingTimer ==
  [][\A desc \in BOOLEAN, s \in Suggestions :
       (VisionResponse(desc, s) /\ Len(timers') > Len(timers)) =>
         /\ ~hasExistingTimer(timers, toLowerCase(s.label))
         /\ s.dur > 0]_vars

\* C23: a step that appends to the vision log leaves at most 20 entries,
\* which are the most recently appended ones in the order of their appending;
\* one entry appended to a log of 20 evicts the oldest entry and no other.
C23_LastTwenty ==
  [][(logs' # logs /\ logs' # <<>>) =>
       LET added == Serial(logs') - Serial(logs) IN
       /\ added >= 1
       /\ Len(logs') <= 20
       /\ Len(logs') = IF Len(logs) + added <= 20 THEN Len(logs) + added ELSE 20
       /\ \A i \in DOMAIN logs' : logs'[i] = Serial(logs') - Len(logs') + i
       /\ (Len(logs) = 20 /\ added = 1) =>
            \A i \in 1..19 : logs'[i] = logs[i + 1]]_vars

\* The log is full and its two oldest entries have been evicted.
C23_Witness == Len(logs) = 20 /\ logs[1] = 3

\* The audio and video frames among the messages msgs.
Frames(msgs) == {j \in DOMAIN msgs : msgs[j].kind \in {"audio", "video"}}

\* A step that can write to a channel.
SendingStep ==
  \/ \E k \in Attempts : MicFrame(k)
  \/ \E i \in Attempts : VideoFrame(i)
  \/ \E k \in Attempts : OnOpen(k)

\* Disconnect leaves the handles cleared: the relay interval and the contexts
\* they referred to are gone, the units of the playback set are stopped.
TearsDownSession ==
  /\ videoIntervalRef' = 0 /\ videoIntervalRef \notin videoIntervals'
  /\ ~visionIntervalRef'
  /\ sourcesRef' = {}
  /\ \A u \in units' : u.stopped
  /\ audioContextRef' = 0
  /\ audioContextRef # 0 => ctx'[audioContextRef] = "closed"
  /\ sessionPromiseRef' = 0

\* Nothing is sent and no analysis is started.
Quiet ==
  /\ SendingStep => Frames(wire') = {}
  /\ analysing' <= analysing

\* C22: disconnect() leaves the relay interval and the analysis interval
\* cleared, the playback set empty and its units stopped, the contexts closed
\* and the session handle null; and from then until the next connect() no
\* step sends an audio or video frame on a channel or starts an analysis.
C22_QuietAfterDisconnect ==
  [][/\ Disconnect => TearsDownSession
     /\ (idle /\ idle') => Quiet]_vars

\* C31: every timer of the list has an original duration of at least 1, and
\* a timer that a step adds to the list is running with its remaining
\* duration equal to the original one.
C31_CreatedPositive ==
  [][\A i \in DOMAIN timers' :
       /\ timers'[i].orig >= 1
       /\ i > Len(timers) =>
            timers'[i].status = "running" /\ timers'[i].rem = timers'[i].orig]_vars

\* ------------------------------------------------ analyze-vision: replies
SpecServe == InitServe /\ [][NextServe]_vars

\* The function got as far as the model's reply: a POST with an image, the
\* key configured, the gateway answered 200 with a JSON body.
GotContent ==
  /\ request.method = "POST" /\ request.imageBase64
  /\ request.LOVABLE_API_KEY
  /\ reply.status = 200 /\ reply.json
Served == resp # NoResponse /\ GotContent

\* The reply has a brace-delimited text and JSON.parse throws on it.
Malformed == LET m == jsonMatch(trim(reply.content))
             IN  m # <<>> /\ parseThrows(m)
\* The reply has no brace-delimited text at all.
NoObject == jsonMatch(trim(reply.content)) = <<>>

\* The reply cut to its first DescLimit characters.
Truncated ==
  LET c == trim(reply.content)
  IN  [i \in 1..(IF Len(c) < DescLimit THEN Len(c) ELSE DescLimit) |-> c[i]]

\* C32 as stated: a reply that is malformed JSON, or has no JSON object at
\* all, is answered with a success response whose description is the reply
\* truncated to 100 characters and whose timerSuggestion is null.
C32_RawFallback ==
  (Served /\ (Malformed \/ NoObject)) =>
    /\ resp.status = 200
    /\ resp.description = Truncated
    /\ resp.timerSuggestion = "null"

\* C32, amended: malformed JSON is answered with the truncated reply, a reply
\* with no JSON object with the fixed text 'Unable to analyze scene'; both
\* are success responses with a null timerSuggestion.
C32_Fallbacks ==
  (Served /\ (Malformed \/ NoObject)) =>
    /\ resp.status = 200
    /\ resp.timerSuggestion = "null"
    /\ Malformed => resp.description = Truncated /\ Len(resp.description) <= DescLimit
    /\ NoObject => resp.description = Unable

\* A malformed reply longer than the limit was answered.
C32_Witness ==
  Served /\ Malformed /\ Len(trim(reply.content)) > DescLimit

\* A reply with no JSON object was answered.
C32_NoObjectWitness == Served /\ NoObject /\ reply.content # <<>>

\* ------------------------------------------------- connection status shown
\* C33: isConnecting and isConnected are never both true, and the
\* diagnostics' connectionStatus agrees with them: 'connected' iff
\* isConnected, 'connecting' iff isConnecting, 'disconnected' iff neither.
C33_StatusAgrees ==
  /\ ~(isConnecting /\ isConnected)
  /\ (connectionStatus = "connected") <=> isConnected
  /\ (connectionStatus = "connecting") <=> isConnecting
  /\ (connectionStatus = "disconnected") <=> (~isConnected /\ ~isConnecting)

\* The onopen of an earlier attempt's channel has run while a later attempt
\* was connecting.
C33_Witness ==
  /\ isConnected /\ connectionStatus = "connected"
  /\ \E k \in Attempts : k < nAttempts /\ chan[k] = "open"
                         /\ chan[nAttempts] \in {"none", "opening"}

\* ---------------------------------------------- connected: a live session
\* C34: whenever the state is connected, sessionPromiseRef is not null and
\* the audio contexts are open.
C34_ConnectedIsLive ==
  isConnected =>
    /\ sessionPromiseRef # 0
    /\ audioContextRef # 0
    /\ ctx[audioContextRef] = "open"

\* ------------------------------------------- indicators after the teardown
\* The teardown has run and connect() was not called since: a connect has
\* been made, none is under way, and no session is held.
TornDown ==
  /\ nAttempts > 0
  /\ sessionPromiseRef = 0
  /\ \A k \in Attempts : pc[k] \in {"none", "done", "failed"}

\* C35: from the teardown until the next connect(), isSpeaking, isListening
\* and isProcessing are all false.
C35_QuietOnceTornDown ==
  TornDown => ~isSpeaking /\ ~isListening /\ ~isProcessing

\* ----------------------------------------- chunks overtaken by a barge-in
\* C36: a chunk whose message arrived before an interruption is not started
\* after it: when the interruption was handled while the chunk was decoding,
\* the end of the decoding starts no unit and leaves the cursor alone.
C36_OvertakenDiscarded ==
  [][\A c \in decoding :
       (c.cut /\ AudioDecoded(c, FALSE)) =>
         /\ units' = units
         /\ sourcesRef' = sourcesRef
         /\ nextStartTimeRef' = nextStartTimeRef]_vars

\* ------------------------------------------ callbacks of an earlier channel
\* Channel k belongs to an earlier connect: a later connect has been made, or
\* the user has ended the session since.
Superseded(k) == k < nAttempts \/ (k = nAttempts /\ idle)

\* C37: onclose, onerror and a toolCall message of a channel opened by an
\* earlier connect do not tear down the session, do not change the connection
\* state and create no timer and no log entry.
C37_EarlierChannelInert ==
  [][\A k \in Attempts :
       (/\ Superseded(k)
        /\ \/ OnClose(k)
           \/ OnError(k)
           \/ OnToolCall(k, <<Call(1, "createTimer", TRUE, 1)>>))
       => /\ ConnState' = ConnState
          /\ sessionPromiseRef' = sessionPromiseRef
          /\ audioContextRef' = audioContextRef
          /\ timers' = timers
          /\ logs' = logs]_vars

\* ------------------------------------------------ running timers finish
\* The timer engine under its once-per-second interval, which never stops
\* firing while the application is mounted.
SpecTimersLive == Init /\ [][NextOpenSession \/ NextTimers]_vars /\ WF_vars(Tick)

IsRunning(id) ==
  \E i \in DOMAIN timers : timers[i].id = id /\ timers[i].status = "running"

\* C38: under the tick, a running timer that is not paused, reset or deleted
\* afterwards eventually becomes finished: no timer stays running for ever
\* unless it is reset again and again.
C38_RunningFinishes ==
  \A id \in 1..MaxTimers :
    []<>(~IsRunning(id)) \/ []<><<Reset(id)>>_vars

\* ------------------------------------------- the analysis interval is armed
\* A session whose camera comes on, and the remote closing its channels.
NextRemoteClose ==
  \/ \E k \in Attempts : OnClose(k)

SpecCamera == Init /\ [][NextCamera \/ NextRemoteClose]_vars

\* C39: whenever the camera is active and the state is connected (and React
\* has run the effects of the last update), the periodic still-image analysis
\* is armed: visionIntervalRef is not null.
C39_AnalysisArmed ==
  (/\ isCameraActive /\ isConnected
   /\ rCameraActive = isCameraActive /\ rConnected = isConnected)
    => visionIntervalRef

\* ------------------------------------------- the step of the recipe answer
\* C40: a getActiveRecipe answered for an active recipe with at least one
\* instruction carries a currentStep between 1 and totalSteps and, as
\* currentStepText, the instruction at that position.
C40_StepWithinRecipe ==
  [][\A calls \in RecipeBatches :
       (/\ OnToolCall(1, calls)
        /\ activeRecipe # 0
        /\ StepsOf(activeRecipe) >= 1)
       => LET a == lastSent'.responses[1].response
          IN  /\ a.recipe = activeRecipe
              /\ a.currentStep \in 1..a.totalSteps
              /\ a.currentStepText =
                   [recipe |-> a.recipe, index |-> a.currentStep - 1]]_vars

====
